---- MODULE Spec2Model ----
(***************************************************************************)
(* Activity heatmap dashboard (client/src): the year navigator, the        *)
(* synthetic activity generator, the 53x7 week grid, the intensity         *)
(* classifier and the plural formatter of ActivityHeatmap.vue, the page    *)
(* load of App.vue and the year selector of TeamProductivityStats.vue.     *)
(*                                                                         *)
(* A JavaScript Date is modelled by its time value, counted in whole hours *)
(* since 1970-01-01T00:00Z.  The local-time accessors (getDay, getDate,    *)
(* setDate, getFullYear, new Date(y, m, d)) go through the runtime's time  *)
(* zone; toISOString() formats the UTC calendar day.  A "yyyy-mm-dd"       *)
(* string is modelled by the number yyyymmdd, which is ordered like the    *)
(* string.                                                                 *)
(***************************************************************************)
EXTENDS Integers, Sequences, FiniteSets, TLC

VARIABLES
    tz,            \* runtime time zone: [std |-> hours east of UTC, dst |-> BOOLEAN]
    today,         \* time value returned by new Date() during this page load
    loading,       \* App.vue: loading
    error,         \* App.vue: error (NoError or a message)
    propsData,     \* App.vue activityData = ActivityHeatmap props.data
    selectedYear,  \* ActivityHeatmap.vue: selectedYear (0 while unmounted)
    activityData,  \* ActivityHeatmap.vue: the evaluation the computed activityData
                   \* caches: [year |-> selectedYear read, seed |-> random source]
    lastOp,        \* the handler that ran last, with its argument
    teamYear,      \* TeamProductivityStats.vue: selectedYear
    monthsData,    \* TeamProductivityStats.vue: monthsData (first zone of each month)
    fnArg,         \* argument handed to a pure helper
    fnOut          \* result of the helper call

vars == <<tz, today, loading, error, propsData, selectedYear, activityData,
          lastOp, teamYear, monthsData, fnArg, fnOut>>

appVars  == <<loading, error, propsData, selectedYear, activityData>>
teamVars == <<teamYear, monthsData>>
fnVars   == <<fnArg, fnOut>>

-----------------------------------------------------------------------------
(* Bounds of the model *)

MaxSeed    == 1    \* the random source starts a call in one of the states 0..MaxSeed
MaxCount   == 125  \* helper arguments range over -MaxCount..MaxCount

-----------------------------------------------------------------------------
(* Calendar arithmetic of the Date built-in (proleptic Gregorian calendar) *)

HoursPerDay == 24

\* Day number (days since 1970-01-01) of the civil date y-m-d, m in 1..12.
\* As Date does, a day beyond the month's end carries into the next month.
DaysFromCivil(y, m, d) ==
    LET yy  == IF m <= 2 THEN y - 1 ELSE y
        era == yy \div 400
        yoe == yy - era * 400
        mp  == (m + 9) % 12
        doy == (153 * mp + 2) \div 5 + d - 1
        doe == yoe * 365 + yoe \div 4 - yoe \div 100 + doy
    IN  era * 146097 + doe - 719468

\* Civil date [y, m, d] of a day number.
CivilFromDays(z) ==
    LET z2  == z + 719468
        era == z2 \div 146097
        doe == z2 - era * 146097
        yoe == (doe - doe \div 1460 + doe \div 36524 - doe \div 146096) \div 365
        doy == doe - (365 * yoe + yoe \div 4 - yoe \div 100)
        mp  == (5 * doy + 2) \div 153
        dd  == doy - (153 * mp + 2) \div 5 + 1
        mm  == IF mp < 10 THEN mp + 3 ELSE mp - 9
    IN  [y |-> IF mm <= 2 THEN yoe + era * 400 + 1 ELSE yoe + era * 400,
         m |-> mm, d |-> dd]

\* Weekday of a day number, 0 = Sunday .. 6 = Saturday (1970-01-01: Thursday).
WeekdayOfDay(z) == (z + 4) % 7

\* Day number of the last Sunday of month m of year y.
LastSunday(y, m) ==
    LET last == DaysFromCivil(y, m + 1, 1) - 1
    IN  last - WeekdayOfDay(last)

\* Summer time of a zone that observes it: from 01:00Z on the last Sunday of
\* March to 01:00Z on the last Sunday of October.
InDst(ts) ==
    LET y == CivilFromDays(ts \div HoursPerDay).y
    IN  /\ ts >= LastSunday(y, 3) * HoursPerDay + 1
        /\ ts <  LastSunday(y, 10) * HoursPerDay + 1

\* Hours the zone's local time is ahead of UTC at time value ts.
Offset(ts) == tz.std + (IF tz.dst /\ InDst(ts) THEN 1 ELSE 0)

\* Local wall-clock hours of a time value, and back.
LocalHours(ts) == ts + Offset(ts)

LocalToTime(lh) ==
    IF tz.dst /\ InDst(lh - tz.std - 1) THEN lh - tz.std - 1 ELSE lh - tz.std

\* Local day number of a time value.
LocalDay(ts) == LocalHours(ts) \div HoursPerDay

\* new Date(year, monthIndex, day): local midnight of that civil date.
NewDate(year, monthIndex, day) ==
    LocalToTime(DaysFromCivil(year, monthIndex + 1, day) * HoursPerDay)

\* date.getFullYear(), date.getDay()
GetFullYear(ts) == CivilFromDays(LocalDay(ts)).y
GetDay(ts)      == WeekdayOfDay(LocalDay(ts))

\* date.setDate(date.getDate() + n): n local calendar days later, same
\* wall-clock time.
AddDays(ts, n) == LocalToTime(LocalHours(ts) + n * HoursPerDay)

\* date.toISOString().split('T')[0]: the UTC calendar day, as yyyymmdd.
ISODate(ts) ==
    LET c == CivilFromDays(ts \div HoursPerDay)
    IN  c.y * 10000 + c.m * 100 + c.d

\* Day number of the calendar day a yyyymmdd key names.
DayOfKey(k) == DaysFromCivil(k \div 10000, (k \div 100) % 100, k % 100)

\* yyyymmdd key of a day number.
KeyOfDay(z) ==
    LET c == CivilFromDays(z) IN c.y * 10000 + c.m * 100 + c.d

-----------------------------------------------------------------------------
(* The random source.  Math.random() returns x / RandomResolution for a    *)
(* whole x in 0..RandomResolution - 1.  The environment picks the state    *)
(* the source is in when a generator is called; Random(seed, n) is what    *)
(* the n-th call after that returns.                                       *)

RandomResolution == 64

Seeds == 0..MaxSeed

Random(seed, n) == (37 * (seed + n) + 11 * ((seed + n) \div 7)) % RandomResolution

\* Math.random() > 0.3
AboveThreshold(x) == 10 * x > 3 * RandomResolution

\* Math.floor(Math.random() * 20)
RandomCount(x) == (x * 20) \div RandomResolution

-----------------------------------------------------------------------------
(* ActivityHeatmap.vue *)

MIN_YEAR    == 2020
MAX_YEAR    == 2030
WEEKS_COUNT == 53
DAYS_IN_WEEK == 7

NoData == <<>>       \* the object {} : a map with no keys

\* changeYear with the upper comparison written < instead of <=.
NewSelectedYearExclusive(cur, delta) ==
    LET newYear == cur + delta
    IN  IF newYear >= MIN_YEAR /\ newYear < MAX_YEAR THEN newYear ELSE cur

\* changeYear(delta): the value of selectedYear after the call.
NewSelectedYear(cur, delta) ==
    LET newYear == cur + delta
    IN  IF newYear >= MIN_YEAR /\ newYear <= MAX_YEAR THEN newYear ELSE cur

\* for (const item of props.data) data[item.date] = item.count
RECURSIVE CopyItems(_, _, _)
CopyItems(items, i, data) ==
    IF i > Len(items) THEN data
    ELSE CopyItems(items, i + 1, (items[i].date :> items[i].count) @@ data)

\* Math.random() > 0.3 ? Math.floor(Math.random() * 20) : 0, for the i-th
\* day of the loop (the two calls of day i are calls 2i - 1 and 2i).
RandomDayCount(seed, i) ==
    IF AboveThreshold(Random(seed, 2 * i - 1))
    THEN RandomCount(Random(seed, 2 * i))
    ELSE 0

MaxLoopDays == 366    \* a year has no more days

\* while (currentDate <= maxDate) { data[dateStr] = ...; next day }: the
\* i-th pass has currentDate = startDate advanced i - 1 times by one day and
\* writes data[dateStr]; a later pass with the same dateStr overwrites.  The
\* UTC day of a local midnight is the local day or the day before, so the
\* passes that write key k lie within one place of k's distance from the
\* first key.
GenerateDays(startDate, maxDate, seed) ==
    LET n       == Cardinality({ i \in 1..MaxLoopDays : AddDays(startDate, i - 1) <= maxDate })
        dateStr == [i \in 1..n |-> ISODate(AddDays(startDate, i - 1))]
        first   == DayOfKey(dateStr[1])
    IN  [k \in { dateStr[i] : i \in 1..n } |->
            LET near == DayOfKey(k) - first + 1
                last == CHOOSE i \in { j \in (near - 1)..(near + 1) : j >= 1 /\ j <= n } :
                            /\ dateStr[i] = k
                            /\ (i = n \/ dateStr[i + 1] # k)
            IN  RandomDayCount(seed, last)]

\* generateYearData with the supplied items laid over random counts instead
\* of replacing them.
generateYearDataOverSynthetic(items, year, seed) ==
    LET startDate == NewDate(year, 0, 1)
        endDate   == NewDate(year, 11, 31)
        maxDate   == IF year = GetFullYear(today) THEN today ELSE endDate
    IN  CopyItems(items, 1, GenerateDays(startDate, maxDate, seed))

\* generateYearData(), for props.data = items, selectedYear = year and the
\* random source starting in state seed.
generateYearData(items, year, seed) ==
    IF Len(items) > 0
    THEN CopyItems(items, 1, NoData)
    ELSE LET startDate == NewDate(year, 0, 1)
             endDate   == NewDate(year, 11, 31)
             maxDate   == IF year = GetFullYear(today) THEN today ELSE endDate
         IN  GenerateDays(startDate, maxDate, seed)

\* The cell count with the lookup left out: every cell gets the default.
CellCountDefaultOnly(data, dateStr) == 0

\* activityData.value[dateStr] || 0
CellCount(data, dateStr) ==
    IF dateStr \in DOMAIN data /\ data[dateStr] # 0 THEN data[dateStr] ELSE 0

\* The start date without the branch for Sunday: 8 - 0 days are added.
StartDateNoSundayCase(year) ==
    LET jan1         == NewDate(year, 0, 1)
        startDay     == GetDay(jan1)
        daysToMonday == IF startDay # 1 THEN 8 - startDay ELSE 0
    IN  AddDays(jan1, daysToMonday)

\* The first day of the grid: the Monday on or after 1 January.
StartDate(year) ==
    LET jan1         == NewDate(year, 0, 1)
        startDay     == GetDay(jan1)
        daysToMonday == IF startDay = 0 THEN 1
                        ELSE IF startDay # 1 THEN 8 - startDay
                        ELSE 0
    IN  AddDays(jan1, daysToMonday)

\* The values currentDate takes in the two nested loops, in order: the
\* k-th is startDate advanced k - 1 times by setDate(getDate() + 1).
WalkDates(startDate, n) == [k \in 1..n |-> AddDays(startDate, k - 1)]

\* The computed property weeks, for selectedYear = year and
\* activityData.value = data.
Weeks(year, data) ==
    LET dates == WalkDates(StartDate(year), WEEKS_COUNT * DAYS_IN_WEEK)
    IN  [weekIndex \in 1..WEEKS_COUNT |->
            [i \in 1..DAYS_IN_WEEK |->
                LET dateStr == ISODate(dates[(weekIndex - 1) * DAYS_IN_WEEK + i])
                IN  [date      |-> dateStr,
                     count     |-> CellCount(data, dateStr),
                     dayOfWeek |-> i - 1]]]

\* activityData.value: what the cached evaluation of generateYearData returned.
activityDataValue == generateYearData(propsData, activityData.year, activityData.seed)

weeks == Weeks(selectedYear, activityDataValue)

\* The cells of weeks in week-then-day order.
Cells ==
    LET w == weeks
    IN  [k \in 1..(Len(w) * DAYS_IN_WEEK) |->
            w[((k - 1) \div DAYS_IN_WEEK) + 1][((k - 1) % DAYS_IN_WEEK) + 1]]

\* getIntensityClass with the first threshold written < 3 instead of <= 3.
getIntensityClassOffByOne(count) ==
    IF count = 0 THEN "intensity-0"
    ELSE IF count < 3 THEN "intensity-1"
    ELSE IF count <= 6 THEN "intensity-2"
    ELSE IF count <= 9 THEN "intensity-3"
    ELSE "intensity-4"

\* getIntensityClass(count)
getIntensityClass(count) ==
    IF count = 0 THEN "intensity-0"
    ELSE IF count <= 3 THEN "intensity-1"
    ELSE IF count <= 6 THEN "intensity-2"
    ELSE IF count <= 9 THEN "intensity-3"
    ELSE "intensity-4"

\* a % n of JavaScript: the remainder takes the sign of a.
JsRem(a, n) == IF a >= 0 THEN a % n ELSE 0 - ((0 - a) % n)

\* getCommitsWord without the exception for 11.
getCommitsWordNoEleven(count) ==
    IF JsRem(count, 10) = 1 THEN "kommit"
    ELSE IF JsRem(count, 10) \in {2, 3, 4} /\ JsRem(count, 100) \notin {12, 13, 14}
         THEN "kommita"
    ELSE "kommitov"

\* getCommitsWord(count); the three forms are the Russian words
\* "kommit", "kommita", "kommitov" of the source, transliterated.
getCommitsWord(count) ==
    IF JsRem(count, 10) = 1 /\ JsRem(count, 100) # 11 THEN "kommit"
    ELSE IF JsRem(count, 10) \in {2, 3, 4} /\ JsRem(count, 100) \notin {12, 13, 14}
         THEN "kommita"
    ELSE "kommitov"

-----------------------------------------------------------------------------
(* TeamProductivityStats.vue *)

TEAM_MIN_YEAR == 2015
TEAM_MAX_YEAR == 2025
MONTHS        == 12
ZONES         == 10

\* Array.from({ length: 10 }, () => Math.random()), the calls being calls
\* first .. first + 9 of the source.
generateRandomZones(seed, first) == [z \in 1..ZONES |-> Random(seed, first + z - 1)]

\* generateMonthsData(): the zones of the twelve months.
generateMonthsData(seed) ==
    [m \in 1..MONTHS |-> generateRandomZones(seed, ZONES * (m - 1) + 1)]

\* :disabled of the two year buttons
PrevDisabled(year) == year <= TEAM_MIN_YEAR
NextDisabled(year) == year >= TEAM_MAX_YEAR

-----------------------------------------------------------------------------
(* The environment: time zones, clock readings, API responses *)

Zones == { [std |-> -5, dst |-> FALSE],    \* UTC-5, no summer time
           [std |->  0, dst |-> FALSE],    \* UTC
           [std |->  3, dst |-> FALSE],    \* UTC+3, no summer time
           [std |->  0, dst |-> TRUE] }    \* UTC in winter, UTC+1 in summer

Clock(y, m, d, h) == DaysFromCivil(y, m, d) * HoursPerDay + h

Clocks == { Clock(2025, 3, 10, 12), Clock(2026, 11, 2, 9), Clock(2031, 2, 1, 9) }

\* Object.entries(response.data).map(([date, count]) => ({ date, count })),
\* in key order.
RECURSIVE Entries(_)
Entries(m) ==
    IF DOMAIN m = {} THEN <<>>
    ELSE LET date == CHOOSE k \in DOMAIN m : \A j \in DOMAIN m : k <= j
         IN  << [date |-> date, count |-> m[date]] >>
             \o Entries([k \in DOMAIN m \ {date} |-> m[k]])

\* The activity maps the API may answer with (response.data).
Responses ==
    { NoData,
      (20250110 :> 5),
      (20250101 :> 7) @@ (20250110 :> 0),
      (20241230 :> 2) @@ (20260104 :> 12) }

\* A JavaScript value as far as the client looks at it: its type, what
\* String() makes of it and its own enumerable properties.
JsValue(is, text, own) == [is |-> is, text |-> text, own |-> own]

Undefined      == JsValue("undefined", "undefined", NoData)
JsString(text) == JsValue("string", text, NoData)
JsNumber(text) == JsValue("number", text, NoData)
EmptyArray     == JsValue("object", "", NoData)
JsObject(own)  == JsValue("object", "[object Object]", own)

\* ToBoolean, as || and v-else-if apply it
Truthy(v) ==
    /\ v.is \notin { "undefined", "null" }
    /\ ~(v.is = "string" /\ v.text = "")
    /\ ~(v.is = "number" /\ v.text \in { "0", "NaN" })

\* A response body: whether response.json() parses it, and the detail and
\* data properties of the object it parses to.
Body(parses, detail, data) == [parses |-> parses, detail |-> detail, data |-> data]

NotJson == Body(FALSE, Undefined, Undefined)

\* The bodies a response that is not ok may carry.
ErrorBodies ==
    { NotJson,
      Body(TRUE, Undefined, Undefined),
      Body(TRUE, JsString("User not found"), Undefined),
      Body(TRUE, EmptyArray, Undefined) }

\* The bodies an ok response may carry: an activity map, no data property, a
\* data property that is not a map, or no JSON.
OkBodies ==
    { Body(TRUE, Undefined, JsObject(m)) : m \in Responses }
        \cup { NotJson, Body(TRUE, Undefined, Undefined), Body(TRUE, Undefined, JsNumber("5")) }

\* What fetch(url) comes back with: nothing (the promise rejects) or a
\* response with a status, a status text and a body.
Replies ==
    { [arrives |-> FALSE, status |-> 0, statusText |-> "", body |-> NotJson] }
        \cup { [arrives |-> TRUE, status |-> 200, statusText |-> "OK", body |-> b] :
                    b \in OkBodies }
        \cup { [arrives |-> TRUE, status |-> 500, statusText |-> t, body |-> b] :
                    t \in { "", "Internal Server Error" }, b \in ErrorBodies }

NoError == "null"

Op(name, delta) == [name |-> name, delta |-> delta]

\* fnOut before any helper was called
NoCall == [fn |-> "none", result |-> ""]

\* An evaluation of generateYearData: the selectedYear it ran with and the
\* state the random source was in (the seed is read in the else branch only).
Evaluation(year, seed) == [year |-> year, seed |-> seed]

Deltas == { -1, 1 }

-----------------------------------------------------------------------------
(* App.vue with the heatmap it mounts *)

\* response.ok
ResponseOk(reply) == reply.status >= 200 /\ reply.status <= 299

Throw(message) == [threw |-> TRUE, message |-> message, value |-> NotJson]
Return(value)  == [threw |-> FALSE, message |-> "", value |-> value]

\* ApiClient.request: the outcome of the awaited call.
request(reply) ==
    IF ~reply.arrives THEN Throw("Failed to fetch")
    ELSE IF ~ResponseOk(reply)
    THEN LET detail == IF reply.body.parses THEN reply.body.detail
                       ELSE JsString(reply.statusText)
         IN  Throw(IF Truthy(detail) THEN detail.text
                   ELSE "HTTP error! status: " \o ToString(reply.status))
    ELSE IF ~reply.body.parses THEN Throw("Unexpected end of JSON input")
    ELSE Return(reply.body)

\* The try block of onMounted: what it throws, or the array it assigns.
TryBlock(reply) ==
    LET response == request(reply)
    IN  IF response.threw THEN response
        ELSE IF response.value.data.is \in { "undefined", "null" }
        THEN Throw("Cannot convert undefined or null to object")
        ELSE Return(response.value.data.own)

\* v-else-if="error"
ErrorShown == error # NoError /\ error # ""

\* <ActivityHeatmap v-else :data="activityData" />
Mounted == ~loading /\ ~ErrorShown

Init ==
    /\ tz \in Zones
    /\ today \in Clocks
    /\ loading = TRUE
    /\ error = NoError
    /\ propsData = <<>>
    /\ selectedYear = 0
    /\ activityData = Evaluation(0, 0)
    /\ lastOp = Op("setup", 0)
    /\ teamYear = 0 /\ monthsData = <<>> /\ fnArg = 0 /\ fnOut = NoCall

\* onMounted, the request answered: the try block runs to its end, finally
\* clears loading and the template mounts the heatmap, whose setup reads the
\* clock and whose first render evaluates activityData.
FetchOk(response, seed) ==
    /\ loading
    /\ propsData' = Entries(response)
    /\ error' = NoError
    /\ loading' = FALSE
    /\ selectedYear' = GetFullYear(today)
    /\ activityData' = Evaluation(GetFullYear(today), IF DOMAIN response = {} THEN seed ELSE 0)
    /\ lastOp' = Op("mount", 0)
    /\ UNCHANGED <<tz, today, teamVars, fnVars>>

\* onMounted, the try block threw: catch stores the message, finally clears
\* loading; a message that is not truthy lets the template fall through to
\* the heatmap, which mounts with the empty array.
FetchFail(message, seed) ==
    /\ loading
    /\ error' = message
    /\ loading' = FALSE
    /\ lastOp' = Op("fail", 0)
    /\ IF message = ""
       THEN /\ selectedYear' = GetFullYear(today)
            /\ activityData' = Evaluation(GetFullYear(today), seed)
       ELSE UNCHANGED <<selectedYear, activityData>>
    /\ UNCHANGED <<tz, today, propsData, teamVars, fnVars>>

\* @click="changeYear(delta)"; activityData is re-evaluated when selectedYear,
\* which it read in its else branch, has changed.
ChangeYear(delta, seed) ==
    /\ Mounted
    /\ selectedYear' = NewSelectedYear(selectedYear, delta)
    /\ activityData' =
          IF NewSelectedYear(selectedYear, delta) # selectedYear /\ Len(propsData) = 0
          THEN Evaluation(NewSelectedYear(selectedYear, delta), seed)
          ELSE activityData
    /\ lastOp' = Op("changeYear", delta)
    /\ UNCHANGED <<tz, today, loading, error, propsData, teamVars, fnVars>>

Next ==
    \/ \E reply \in Replies, seed \in Seeds :
            ~TryBlock(reply).threw /\ FetchOk(TryBlock(reply).value, seed)
    \/ \E reply \in Replies, seed \in Seeds :
            TryBlock(reply).threw /\ FetchFail(TryBlock(reply).message, seed)
    \/ \E delta \in Deltas, seed \in Seeds : ChangeYear(delta, seed)

Spec == Init /\ [][Next]_vars

-----------------------------------------------------------------------------
(* TeamProductivityStats.vue mounted on its own *)

InitTeam ==
    /\ tz \in Zones
    /\ today \in Clocks
    /\ teamYear = GetFullYear(today)
    /\ \E seed \in Seeds : monthsData = generateMonthsData(seed)
    /\ lastOp = Op("setup", 0)
    /\ loading = TRUE /\ error = NoError /\ propsData = <<>>
    /\ selectedYear = 0 /\ activityData = Evaluation(0, 0)
    /\ fnArg = 0 /\ fnOut = NoCall

\* @click="changeYear(delta)" on a year button that is not disabled: the
\* handler adds delta and regenerates monthsData, and the watcher of
\* selectedYear regenerates it once more.
TeamChangeYear(delta, seed) ==
    /\ IF delta < 0 THEN ~PrevDisabled(teamYear) ELSE ~NextDisabled(teamYear)
    /\ teamYear' = teamYear + delta
    /\ monthsData' = generateMonthsData(seed)
    /\ lastOp' = Op("teamChangeYear", delta)
    /\ UNCHANGED <<tz, today, appVars, fnVars>>

NextTeam == \E delta \in Deltas, seed \in Seeds : TeamChangeYear(delta, seed)

SpecTeam == InitTeam /\ [][NextTeam]_vars

-----------------------------------------------------------------------------
(* The pure helpers of ActivityHeatmap.vue, called with any count *)

InitFn ==
    /\ fnArg \in (0 - MaxCount)..MaxCount
    /\ fnOut = NoCall
    /\ tz = [std |-> 0, dst |-> FALSE]
    /\ today = Clock(2025, 3, 10, 12)
    /\ lastOp = Op("setup", 0)
    /\ loading = TRUE /\ error = NoError /\ propsData = <<>>
    /\ selectedYear = 0 /\ activityData = Evaluation(0, 0)
    /\ teamYear = 0 /\ monthsData = <<>>

\* :class="getIntensityClass(day.count)"
CallGetIntensityClass ==
    /\ fnOut' = [fn |-> "getIntensityClass", result |-> getIntensityClass(fnArg)]
    /\ UNCHANGED <<tz, today, appVars, lastOp, teamVars, fnArg>>

\* {{ getCommitsWord(hoveredDay.count) }}
CallGetCommitsWord ==
    /\ fnOut' = [fn |-> "getCommitsWord", result |-> getCommitsWord(fnArg)]
    /\ UNCHANGED <<tz, today, appVars, lastOp, teamVars, fnArg>>

NextFn == CallGetIntensityClass \/ CallGetCommitsWord

SpecFn == InitFn /\ [][NextFn]_vars

-----------------------------------------------------------------------------
(* Properties *)

\* The supplied activity map m, read off props.data.
HasKey(items, d)    == \E j \in 1..Len(items) : items[j].date = d
ValueOf(items, d)   == items[CHOOSE j \in 1..Len(items) : items[j].date = d].count

\* ISO weekday (Monday = 1 .. Sunday = 7) of 1 January of a year.
IsoWeekdayOfJan1(year) ==
    LET w == WeekdayOfDay(DaysFromCivil(year, 1, 1)) IN IF w = 0 THEN 7 ELSE w

\* C1: in every mounted state the grid has 53 weeks of 7 cells, and the cells
\* in week-then-day order are 371 consecutive calendar days, the first being
\* the calendar day of the start date and each the day after its predecessor.
C1_GridConsecutiveDays ==
    Mounted =>
        LET g     == weeks
            c     == Cells
            start == StartDate(selectedYear)
        IN  /\ Len(g) = 53
            /\ \A w \in 1..Len(g) : Len(g[w]) = 7
            /\ c[1].date = KeyOfDay(LocalDay(start))
            /\ \A k \in 1..370 : DayOfKey(c[k + 1].date) = DayOfKey(c[k].date) + 1

\* C2: the start date of the selected year's grid is a Monday, it is 1 January
\* when that is a Monday, otherwise the first Monday after it, which is
\* jan1 + ((8 - w) mod 7) days for the ISO weekday w of 1 January, and so at
\* most 6 days after 1 January.
C2_StartDateIsMonday ==
    Mounted =>
        LET start == LocalDay(StartDate(selectedYear))
            jan1  == DaysFromCivil(selectedYear, 1, 1)
            w     == IsoWeekdayOfJan1(selectedYear)
        IN  /\ GetDay(StartDate(selectedYear)) = 1
            /\ WeekdayOfDay(start) = 1
            /\ start = jan1 + ((8 - w) % 7)
            /\ (w = 1 => start = jan1)
            /\ (w # 1 => start > jan1)
            /\ start - jan1 <= 6
            /\ StartDate(selectedYear) = NewDate(selectedYear, 0, 1 + ((8 - w) % 7))

\* C2 witness: a year whose 1 January is a Sunday (2023) is displayed and the
\* grid starts on Monday 2 January.
C2_Witness ==
    /\ Mounted
    /\ selectedYear = 2023
    /\ IsoWeekdayOfJan1(selectedYear) = 7
    /\ KeyOfDay(LocalDay(StartDate(selectedYear))) = 20230102

\* C3 as stated: for any supplied map m (also the empty one) a cell dated d
\* has count m[d] when d is a key of m and count 0 otherwise.
C3_CellCountMatchesAnyMap ==
    Mounted =>
        LET g == weeks
        IN  \A w \in 1..53 : \A i \in 1..7 :
                IF HasKey(propsData, g[w][i].date)
                THEN g[w][i].count = ValueOf(propsData, g[w][i].date)
                ELSE g[w][i].count = 0

\* C3 amended: for any supplied map m with at least one entry, a cell dated d
\* has count m[d] when d is a key of m and count 0 otherwise.
C3_CellCountMatchesNonEmptyMap ==
    (Mounted /\ Len(propsData) > 0) =>
        LET g == weeks
        IN  \A w \in 1..53 : \A i \in 1..7 :
                IF HasKey(propsData, g[w][i].date)
                THEN g[w][i].count = ValueOf(propsData, g[w][i].date)
                ELSE g[w][i].count = 0

\* C3 witness: the map { 2025-01-10: 5 } is supplied, 2025 is displayed and
\* the grid has a cell dated 2025-01-10 with count 5.
C3_Witness ==
    /\ Mounted
    /\ HasKey(propsData, 20250110)
    /\ selectedYear = 2025
    /\ LET g == weeks
       IN  \E w \in 1..53 : \E i \in 1..7 :
               g[w][i].date = 20250110 /\ g[w][i].count = 5

\* Bucket number of an intensity class.
Bucket(class) ==
    CHOOSE b \in 0..4 :
        class = <<"intensity-0", "intensity-1", "intensity-2", "intensity-3", "intensity-4">>[b + 1]

\* C4: for a count >= 0 getIntensityClass returns bucket 0 for 0, 1 for 1..3,
\* 2 for 4..6, 3 for 7..9 and 4 from 10 on, and no smaller count gets a
\* larger bucket.
C4_IntensityBuckets ==
    (fnOut.fn = "getIntensityClass" /\ fnArg >= 0) =>
        /\ (fnArg = 0 => fnOut.result = "intensity-0")
        /\ (fnArg \in 1..3 => fnOut.result = "intensity-1")
        /\ (fnArg \in 4..6 => fnOut.result = "intensity-2")
        /\ (fnArg \in 7..9 => fnOut.result = "intensity-3")
        /\ (fnArg >= 10 => fnOut.result = "intensity-4")
        /\ \A smaller \in 0..fnArg :
                Bucket(getIntensityClass(smaller)) <= Bucket(fnOut.result)

\* C4 witness: getIntensityClass was called with 3 and returned bucket 1.
C4_Witness ==
    fnOut.fn = "getIntensityClass" /\ fnArg = 3 /\ fnOut.result = "intensity-1"

\* C5: for a negative count getIntensityClass returns bucket 0.
C5_NegativeCountBucketZero ==
    (fnOut.fn = "getIntensityClass" /\ fnArg < 0) => fnOut.result = "intensity-0"

\* C6: for a count >= 0 getCommitsWord returns the singular form iff
\* count mod 10 = 1 and count mod 100 # 11, otherwise the few form iff
\* count mod 10 is 2, 3 or 4 and count mod 100 is not 12, 13 or 14, otherwise
\* the many form; 1, 21 are singular, 2 is few, 5, 11..14, 25 are many.
C6_PluralForm ==
    (fnOut.fn = "getCommitsWord" /\ fnArg >= 0) =>
        LET ones     == fnArg % 10
            tens     == fnArg % 100
            singular == ones = 1 /\ tens # 11
            few      == ~singular /\ ones >= 2 /\ ones <= 4 /\ ~(tens >= 12 /\ tens <= 14)
        IN  /\ (fnOut.result = "kommit") = singular
            /\ (fnOut.result = "kommita") = few
            /\ (fnOut.result = "kommitov") = (~singular /\ ~few)
            /\ (fnArg \in {1, 21} => fnOut.result = "kommit")
            /\ (fnArg = 2 => fnOut.result = "kommita")
            /\ (fnArg \in {5, 11, 12, 13, 14, 25} => fnOut.result = "kommitov")

\* C6 witness: getCommitsWord was called with 111 and returned the many form.
C6_Witness ==
    fnOut.fn = "getCommitsWord" /\ fnArg = 111 /\ fnOut.result = "kommitov"

\* C7: a step of changeYear(delta) sets selectedYear to selectedYear + delta
\* when that lies in 2020..2030 and leaves it unchanged otherwise.
C7_ChangeYearBounded ==
    [][lastOp'.name = "changeYear" =>
          selectedYear' = IF selectedYear + lastOp'.delta >= 2020
                             /\ selectedYear + lastOp'.delta <= 2030
                          THEN selectedYear + lastOp'.delta
                          ELSE selectedYear]_vars

\* C7 witness: changeYear(+1) ran last and the selected year is 2030, the
\* state both the step from 2029 and the refused step at 2030 end in.
C7_Witness ==
    Mounted /\ lastOp = Op("changeYear", 1) /\ selectedYear = 2030

\* C8: in every mounted state selectedYear lies in 2020..2030.
C8_SelectedYearWithinBounds ==
    Mounted => (selectedYear >= 2020 /\ selectedYear <= 2030)

\* C9: in every state of the team widget selectedYear lies in 2015..2025.
C9_TeamYearWithinBounds ==
    teamYear >= 2015 /\ teamYear <= 2025

\* C10: when no data is supplied, the synthetic map of the selected year Y has
\* an entry for exactly the calendar days from 1 January of Y through
\* 31 December of Y, or through today when Y is the current year, and every
\* value is in 0..19.
C10_SyntheticCoversYear ==
    (Mounted /\ Len(propsData) = 0) =>
        LET data    == activityDataValue
            first   == DaysFromCivil(selectedYear, 1, 1)
            lastDay == IF selectedYear = GetFullYear(today)
                       THEN LocalDay(today)
                       ELSE DaysFromCivil(selectedYear, 12, 31)
        IN  /\ DOMAIN data = { KeyOfDay(z) : z \in first..lastDay }
            /\ \A k \in DOMAIN data : data[k] \in 0..19

\* C11: when a non-empty data set is supplied, the activity map holds the
\* supplied entries and nothing else for every selected year, so a cell with
\* a non-zero count is dated by a supplied key and carries its value; with
\* { 2025-01-10: 5 } and year 2025 one cell, dated 2025-01-10, has count 5 and
\* bucket 2 and the 370 others have count 0 and bucket 0.
C11_SuppliedDataOnly ==
    (Mounted /\ Len(propsData) > 0) =>
        LET data == activityDataValue
            c    == Cells
        IN  /\ DOMAIN data = { propsData[j].date : j \in 1..Len(propsData) }
            /\ \A j \in 1..Len(propsData) : data[propsData[j].date] = propsData[j].count
            /\ \A k \in 1..371 :
                    c[k].count # 0 =>
                        /\ HasKey(propsData, c[k].date)
                        /\ c[k].count = ValueOf(propsData, c[k].date)
            /\ (propsData = << [date |-> 20250110, count |-> 5] >> /\ selectedYear = 2025) =>
                    /\ Cardinality({ k \in 1..371 :
                            /\ c[k].date = 20250110
                            /\ c[k].count = 5
                            /\ getIntensityClass(c[k].count) = "intensity-2" }) = 1
                    /\ Cardinality({ k \in 1..371 :
                            /\ c[k].date # 20250110
                            /\ c[k].count = 0
                            /\ getIntensityClass(c[k].count) = "intensity-0" }) = 370

\* C11 witness: { 2025-01-10: 5 } is supplied, the user has come back from
\* 2026 to 2025, and the grid shows count 5 on 2025-01-10 and 0 elsewhere.
C11_Witness ==
    /\ Mounted
    /\ propsData = << [date |-> 20250110, count |-> 5] >>
    /\ selectedYear = 2025
    /\ lastOp = Op("changeYear", -1)
    /\ LET c == Cells
       IN  /\ \E k \in 1..371 : c[k].date = 20250110 /\ c[k].count = 5
           /\ Cardinality({ k \in 1..371 : c[k].count = 0 }) = 370

\* C12: when the one fetch of a page load has failed, the app is in its error
\* state: loading is false, the error is set and shown, and the heatmap is
\* not rendered.
C12_FailedFetchShowsError ==
    lastOp.name = "fail" =>
        /\ ~loading
        /\ error # NoError
        /\ ErrorShown
        /\ ~Mounted

\* The cells, in week-then-day order, of the grid computed afresh for the
\* selected year from the supplied data, the random source being at seed.
RecomputedCells(seed) ==
    LET w == Weeks(selectedYear, generateYearData(propsData, selectedYear, seed))
    IN  [k \in 1..(Len(w) * DAYS_IN_WEEK) |->
            w[((k - 1) \div DAYS_IN_WEEK) + 1][((k - 1) % DAYS_IN_WEEK) + 1]]

\* C13 as stated: computing the grid again for the same selected year and the
\* same supplied data (also none) gives the date and count of the displayed
\* grid in every cell, whatever the random source does; this is what
\* changeYear(+1) followed by changeYear(-1) displays.
C13_RecomputedGridIdentical ==
    Mounted =>
        \A seed \in Seeds :
            LET c == Cells
                r == RecomputedCells(seed)
            IN  \A k \in 1..371 : r[k].date = c[k].date /\ r[k].count = c[k].count

\* C13 amended: with a non-empty supplied data set, computing the grid again
\* for the same selected year gives the date and count of the displayed grid
\* in every cell, whatever the random source does.
C13_RecomputedGridIdenticalForSuppliedData ==
    (Mounted /\ Len(propsData) > 0) =>
        \A seed \in Seeds :
            LET c == Cells
                r == RecomputedCells(seed)
            IN  /\ DOMAIN r = DOMAIN c
                /\ \A k \in 1..371 : r[k].date = c[k].date /\ r[k].count = c[k].count

\* C13 witness: data is supplied, the user went from the current year to the
\* next and back with changeYear(-1), and the grid computed with the other
\* seed shows the supplied count where the displayed one does.
C13_Witness ==
    /\ Mounted
    /\ Len(propsData) > 0
    /\ lastOp = Op("changeYear", -1)
    /\ selectedYear = GetFullYear(today)
    /\ selectedYear = 2025
    /\ LET c == Cells
           r == RecomputedCells(1)
       IN  \E k \in 1..371 : c[k].count # 0 /\ r[k] = c[k]

\* C14: for a selectable year Y the grid has no date before 1 January of Y,
\* has every day from the start Monday through 31 December of Y exactly once,
\* ends in year Y + 1 with at least 5 days of Y + 1 in it, and has none of
\* the days of Y before the start Monday.
C14_GridSpansYearFromStartMonday ==
    (Mounted /\ selectedYear >= MIN_YEAR /\ selectedYear <= MAX_YEAR) =>
        LET c     == Cells
            jan1  == DaysFromCivil(selectedYear, 1, 1)
            dec31 == DaysFromCivil(selectedYear, 12, 31)
            start == jan1 + ((8 - IsoWeekdayOfJan1(selectedYear)) % 7)
            days  == { DayOfKey(c[k].date) : k \in 1..371 }
        IN  /\ \A z \in days : z >= jan1
            /\ \A z \in start..dec31 : z \in days
            /\ Cardinality({ k \in 1..371 :
                    DayOfKey(c[k].date) >= start /\ DayOfKey(c[k].date) <= dec31 })
                  = dec31 - start + 1
            /\ CivilFromDays(DayOfKey(c[371].date)).y = selectedYear + 1
            /\ Cardinality({ z \in days : z > dec31 }) >= 5
            /\ \A z \in jan1..(start - 1) : z \notin days

\* C15: in every time zone the date key of each cell is the local calendar
\* day the walk stands on, so the cell at week position i is dated by the
\* (i + 1)-th ISO weekday and the first cell by the start Monday; and when no
\* data is supplied the keys the generator writes are the local calendar days
\* its loop stands on.
C15_KeysAreLocalCalendarDays ==
    Mounted =>
        LET c         == Cells
            start     == StartDate(selectedYear)
            jan1      == DaysFromCivil(selectedYear, 1, 1)
            data      == activityDataValue
            startDate == NewDate(activityData.year, 0, 1)
            maxDate   == IF activityData.year = GetFullYear(today) THEN today
                         ELSE NewDate(activityData.year, 11, 31)
        IN  /\ \A k \in 1..371 :
                    /\ c[k].date = KeyOfDay(LocalDay(AddDays(start, k - 1)))
                    /\ c[k].dayOfWeek = (k - 1) % 7
                    /\ WeekdayOfDay(DayOfKey(c[k].date)) = (c[k].dayOfWeek + 1) % 7
            /\ c[1].date = KeyOfDay(jan1 + ((8 - IsoWeekdayOfJan1(selectedYear)) % 7))
            /\ Len(propsData) = 0 =>
                    /\ \A i \in 1..MaxLoopDays :
                            AddDays(startDate, i - 1) <= maxDate =>
                                KeyOfDay(LocalDay(AddDays(startDate, i - 1))) \in DOMAIN data
                    /\ \A key \in DOMAIN data :
                            /\ DayOfKey(key) >= LocalDay(startDate)
                            /\ DayOfKey(key) <= LocalDay(maxDate)

====
